---------------------------- MODULE Spec2Model ----------------------------
(***************************************************************************)
(* serve-videos.py: a socketserver.TCPServer on PORT whose handler,        *)
(* CORSRequestHandler, subclasses http.server.SimpleHTTPRequestHandler and *)
(* overrides end_headers (three fixed headers) and do_GET ("/" is served   *)
(* as "/videos.json").  The inherited methods are modelled as CPython 3.11 *)
(* runs them; a request path is a sequence of tokens ("/", "?" and name    *)
(* chunks), a body a sequence of byte chunks.                              *)
(***************************************************************************)
EXTENDS Integers, Sequences, FiniteSets, TLC

VARIABLES pc, stdout, stderr, exitcode, exitcause, listening, disk, conn,
          backlog, nconn

vars == <<pc, stdout, stderr, exitcode, exitcause, listening, disk, conn,
          backlog, nconn>>

(* ------------------------------ bounds -------------------------------- *)

\* connections the clients open during one run of the server
MaxConns == 2

(* ----------------------------- constants ------------------------------ *)

PORT == 8000

\* socketserver.TCPServer.request_queue_size, the listen() backlog
request_queue_size == 5

\* the client sockets that can be open at the same time
ClientIds == {"c1", "c2"}

Root == <<"/">>
VideosJsonPath == <<"/", "videos.json">>

\* what Ctrl+C leaves as the process status: CPython >= 3.8 re-raises SIGINT
\* (the shell reports 128 + 2), older interpreters exit with status 1
InterruptStatuses == {130, 1}

(* ------------------------------ the disk ------------------------------ *)

NoEntry == [kind |-> "none", data |-> <<>>]
FileOf(bytes) == [kind |-> "file", data |-> bytes]
DirEntry == [kind |-> "dir", data |-> <<>>]

ScriptSource == <<"#!", "py">>

\* the entries of the working directory (the directory of the script)
FileNames == {"videos.json", "Videos.json", "index.html", "serve-videos.py"}

VideosContents == {<<>>, <<"{", "}">>, <<"[", "]">>}

MkDisk(v, w, i) ==
    [n \in FileNames |->
        CASE n = "videos.json" -> v
          [] n = "Videos.json" -> w
          [] n = "index.html" -> i
          [] OTHER -> FileOf(ScriptSource)]

\* videos.json is created, replaced or removed from outside; nothing else is
LifecycleDisks ==
    {MkDisk(v, NoEntry, NoEntry) :
        v \in {NoEntry} \cup {FileOf(b) : b \in {<<"{", "}">>, <<"[", "]">>}}}

AllDisks ==
    {MkDisk(v, w, i) :
        v \in {NoEntry, DirEntry} \cup {FileOf(b) : b \in VideosContents},
        w \in {NoEntry, FileOf(<<"V">>)},
        i \in {NoEntry, FileOf(<<"<", ">">>)}}

Lookup(d, name) == IF name \in DOMAIN d THEN d[name] ELSE NoEntry

(* ----------------------------- requests ------------------------------- *)

\* version "" is a request line of two words (an HTTP/0.9 simple request);
\* ims: an If-Modified-Since header not older than the file's mtime
Request(m, p, v, i) == [method |-> m, path |-> p, version |-> v, ims |-> i]

Paths ==
    {Root, <<"/", "/">>, <<"/", "?", "x=1">>, <<"/", "index.html">>,
     <<"/", "Videos.json">>, VideosJsonPath, <<"/", "nonexistent.json">>,
     <<"/", "/", "videos.json">>}

Methods == {"GET", "HEAD", "POST"}

Versions == {"", "HTTP/1.0", "HTTP/1.1", "HTTP/2.0", "FOO/1.1"}

AllRequests ==
    {Request(m, p, v, i) :
        m \in Methods, p \in Paths, v \in Versions, i \in BOOLEAN}

LifecycleRequests ==
    {Request(m, p, "HTTP/1.1", i) :
        m \in {"GET", "HEAD"}, p \in {Root, VideosJsonPath}, i \in BOOLEAN}
    \cup {Request("GET", p, "", FALSE) : p \in {Root, VideosJsonPath}}
    \cup {Request("POST", p, "HTTP/1.1", FALSE) : p \in {Root, VideosJsonPath}}
    \cup {Request("GET", <<"/", "nonexistent.json">>, "HTTP/1.1", FALSE)}

(* ---------------- the handler object (one per connection) ------------- *)

NoFile == [open |-> FALSE, data |-> <<>>]
NoDisk == MkDisk(NoEntry, NoEntry, NoEntry)

\* hbuf: _headers_buffer; head and body: what has been written to wfile;
\* code: the status passed to send_response; f: the file object send_head
\* returned; resolved: the path handed to translate_path; snap: the directory
\* as send_head found it; log: the lines log_message wrote during this step;
\* ims: self.headers carries an If-Modified-Since that is not older than mtime
NewHandler ==
    [command |-> "", path |-> <<>>, request_version |-> "HTTP/0.9",
     hbuf |-> <<>>, head |-> <<>>, body |-> <<>>, code |-> 0, f |-> NoFile,
     resolved |-> <<>>, snap |-> NoDisk, log |-> <<>>, ims |-> FALSE]

protocol_version == "HTTP/1.0"

NatStr(n) ==
    <<"0", "1", "2", "3", "4", "5", "6", "7", "8", "9", "10", "11", "12",
      "13", "14", "15", "16">>[n + 1]

CodeStr(code) ==
    CASE code = 200 -> "200" [] code = 301 -> "301" [] code = 304 -> "304"
      [] code = 400 -> "400" [] code = 404 -> "404" [] code = 501 -> "501"
      [] code = 505 -> "505" [] OTHER -> "???"

Line(k, v) == [k |-> k, v |-> v]

send_response_only(h, code) ==
    IF h.request_version # "HTTP/0.9"
    THEN [h EXCEPT !.hbuf = Append(@, Line(protocol_version, CodeStr(code)))]
    ELSE h

send_header(h, keyword, value) ==
    IF h.request_version # "HTTP/0.9"
    THEN [h EXCEPT !.hbuf = Append(@, Line(keyword, value))]
    ELSE h

send_response(h, code) ==
    LET logged == [h EXCEPT !.log = Append(@, <<"request", CodeStr(code)>>),
                            !.code = code]
    IN send_header(send_header(send_response_only(logged, code),
                               "Server", "SimpleHTTP/0.6"),
                   "Date", "now")

\* BaseHTTPRequestHandler.end_headers, reached through super()
base_end_headers(h) ==
    IF h.request_version # "HTTP/0.9"
    THEN [h EXCEPT !.head = @ \o Append(h.hbuf, Line("", "")), !.hbuf = <<>>]
    ELSE h

end_headers_without_cache_control(h) ==
    base_end_headers(
        send_header(
            send_header(h, "Access-Control-Allow-Origin", "*"),
            "Access-Control-Allow-Methods", "GET"))

\* CORSRequestHandler.end_headers
end_headers(h) ==
    base_end_headers(
        send_header(
            send_header(
                send_header(h, "Access-Control-Allow-Origin", "*"),
                "Access-Control-Allow-Methods", "GET"),
            "Cache-Control", "no-store, no-cache, must-revalidate"))

ErrorBody(code, message) ==
    <<"<html>", "Error code:", CodeStr(code), "Message:", message, "</html>">>

\* an error path that bypasses the subclass's end_headers
send_error_base_headers(h, code, message) ==
    LET h1 == [h EXCEPT !.log = Append(@, <<"error", CodeStr(code)>>)]
        h2 == send_header(send_response(h1, code), "Connection", "close")
        body == ErrorBody(code, message)
        h3 == send_header(
                  send_header(h2, "Content-Type", "text/html;charset=utf-8"),
                  "Content-Length", NatStr(Len(body)))
        h4 == base_end_headers(h3)
    IN IF h.command # "HEAD" THEN [h4 EXCEPT !.body = @ \o body] ELSE h4

\* BaseHTTPRequestHandler.send_error
send_error(h, code, message) ==
    LET h1 == [h EXCEPT !.log = Append(@, <<"error", CodeStr(code)>>)]
        h2 == send_header(send_response(h1, code), "Connection", "close")
        hasBody == code >= 200 /\ code \notin {204, 205, 304}
        body == IF hasBody THEN ErrorBody(code, message) ELSE <<>>
        h3 == IF hasBody
              THEN send_header(
                       send_header(h2, "Content-Type", "text/html;charset=utf-8"),
                       "Content-Length", NatStr(Len(body)))
              ELSE h2
        h4 == end_headers(h3)
    IN IF h.command # "HEAD" /\ body # <<>>
       THEN [h4 EXCEPT !.body = @ \o body]
       ELSE h4

(* ------------------------------ parsing ------------------------------- *)

\* version.startswith('HTTP/') and its two components are digits
VersionWellFormed(v) == v \in {"HTTP/1.0", "HTTP/1.1", "HTTP/2.0"}

VersionNumber(v) ==
    CASE v = "HTTP/1.0" -> <<1, 0>>
      [] v = "HTTP/1.1" -> <<1, 1>>
      [] v = "HTTP/2.0" -> <<2, 0>>

RECURSIVE lstrip_slashes(_)
lstrip_slashes(p) ==
    IF p # <<>> /\ Head(p) = "/" THEN lstrip_slashes(Tail(p)) ELSE p

\* gh-87389: a path that starts with '//' is reduced to a single leading '/'
collapse_leading_slashes(p) ==
    IF Len(p) >= 2 /\ p[1] = "/" /\ p[2] = "/"
    THEN <<"/">> \o lstrip_slashes(p)
    ELSE p

\* BaseHTTPRequestHandler.parse_request: [ok, h]
parse_request(h, req) ==
    LET words == IF req.version = "" THEN 2 ELSE 3
        v == req.version
    IN IF words >= 3 /\ ~VersionWellFormed(v)
       THEN [ok |-> FALSE, h |-> send_error(h, 400, "Bad request version")]
       ELSE IF words >= 3 /\ VersionNumber(v)[1] >= 2
       THEN [ok |-> FALSE, h |-> send_error(h, 505, "Invalid HTTP version")]
       ELSE LET hv == IF words >= 3 THEN [h EXCEPT !.request_version = v] ELSE h
            IN IF words = 2 /\ req.method # "GET"
               THEN [ok |-> FALSE,
                     h |-> send_error(hv, 400, "Bad HTTP/0.9 request type")]
               ELSE [ok |-> TRUE,
                     h |-> [hv EXCEPT
                              !.command = req.method,
                              !.ims = req.ims,
                              !.path = collapse_leading_slashes(req.path)]]

(* -------------------- SimpleHTTPRequestHandler ------------------------ *)

RECURSIVE before_query(_)
\* urlsplit(path).path, path.split('?', 1)[0]: the tokens before the first "?"
before_query(p) ==
    IF p = <<>> \/ Head(p) = "?" THEN <<>> ELSE <<Head(p)>> \o before_query(Tail(p))

ends_with_slash(p) == p # <<>> /\ p[Len(p)] = "/"

IsName(t) == t # "/"

\* translate_path: the words under the working directory, and whether the
\* translated path keeps a trailing slash
translate_path(path) ==
    LET bare == before_query(path)
    IN [words |-> SelectSeq(bare, IsName), trailing_slash |-> ends_with_slash(bare)]

\* os.path.isdir / os.path.isfile of a translated path
EntryAt(d, words) ==
    CASE words = <<>> -> DirEntry
      [] Len(words) = 1 -> Lookup(d, words[1])
      [] OTHER -> NoEntry

guess_type(name) ==
    CASE name \in {"videos.json", "Videos.json", "nonexistent.json"} -> "application/json"
      [] name = "index.html" -> "text/html"
      [] name = "serve-videos.py" -> "text/x-python"
      [] OTHER -> "application/octet-stream"

RECURSIVE SortedNames(_)
SortedNames(S) ==
    IF S = {} THEN <<>>
    ELSE LET order == <<"index.html", "serve-videos.py", "Videos.json", "videos.json">>
             first == CHOOSE n \in S :
                        \A m \in S :
                          (CHOOSE i \in 1..4 : order[i] = n) <= (CHOOSE i \in 1..4 : order[i] = m)
         IN <<first>> \o SortedNames(S \ {first})

\* os.listdir of the directory at words, sorted by lower-cased name
ListDir(d, words) ==
    IF words = <<>> THEN SortedNames({n \in DOMAIN d : d[n].kind # "none"}) ELSE <<>>

list_directory(h, d, words) ==
    LET body == <<"<html>", "Directory listing for">> \o h.path
                    \o ListDir(d, words) \o <<"</html>">>
        h1 == send_header(
                  send_header(send_response(h, 200),
                              "Content-type", "text/html; charset=utf-8"),
                  "Content-Length", NatStr(Len(body)))
    IN [end_headers(h1) EXCEPT !.f = [open |-> TRUE, data |-> body]]

send_head_file(h, d, words, trailing_slash) ==
    LET e == EntryAt(d, words)
        ctype == guess_type(words[Len(words)])
    IN IF trailing_slash \/ e.kind # "file"
       THEN send_error(h, 404, "File not found")
       ELSE IF h.ims
       THEN end_headers(send_response(h, 304))
       ELSE [end_headers(
                 send_header(
                     send_header(
                         send_header(send_response(h, 200), "Content-type", ctype),
                         "Content-Length", NatStr(Len(e.data))),
                     "Last-Modified", "mtime"))
             EXCEPT !.f = [open |-> TRUE, data |-> e.data]]

\* SimpleHTTPRequestHandler.send_head
send_head(h0, d) ==
    LET h == [h0 EXCEPT !.resolved = h0.path, !.snap = d]
        tp == translate_path(h.path)
        isdir == EntryAt(d, tp.words).kind = "dir"
    IN IF isdir /\ ~ends_with_slash(before_query(h.path))
       THEN end_headers(
                send_header(
                    send_header(send_response(h, 301), "Location", "path/"),
                    "Content-Length", "0"))
       ELSE IF isdir /\ EntryAt(d, tp.words \o <<"index.html">>).kind = "file"
       THEN send_head_file(h, d, tp.words \o <<"index.html">>, FALSE)
       ELSE IF isdir
       THEN list_directory(h, d, tp.words)
       ELSE send_head_file(h, d, tp.words, tp.trailing_slash)

(* ------------------------ CORSRequestHandler -------------------------- *)

\* no rewrite at all
rewrite_nothing(path) == path

\* a rewrite that ignores the query string
rewrite_root_prefix(path) ==
    IF before_query(path) = Root THEN VideosJsonPath ELSE path

\* do_GET: if self.path == '/': self.path = '/videos.json'
rewrite_root(path) ==
    IF path = Root THEN VideosJsonPath ELSE path

\* do_GET up to the file object super().do_GET() hands to copyfile
do_GET(h, d) == send_head([h EXCEPT !.path = rewrite_root(h.path)], d)

\* a do_HEAD that shares do_GET's rewrite
do_HEAD_rewriting(h, d) == [do_GET(h, d) EXCEPT !.f = NoFile]

\* the inherited do_HEAD: send_head, then f.close()
do_HEAD(h, d) == [send_head(h, d) EXCEPT !.f = NoFile]

\* copyfile(f, self.wfile), then f.close()
copyfile(h) == [h EXCEPT !.body = @ \o h.f.data, !.f = NoFile]

hasattr_any(command) == TRUE

\* hasattr(self, 'do_' + self.command)
hasattr_do(command) == command \in {"GET", "HEAD"}

\* handle_one_request after a successful parse_request
dispatch(h, d) ==
    IF ~hasattr_do(h.command)
    THEN send_error(h, 501, "Unsupported method")
    ELSE IF h.command = "HEAD"
    THEN do_HEAD(h, d)
    ELSE do_GET(h, d)

(* --------------------------- the process ------------------------------ *)

StartingLine == <<"Starting HTTP server on port", PORT>>
AvailableLine == <<"Videos JSON available at: http://localhost:/videos.json", PORT>>
PressCtrlCLine == <<"Press Ctrl+C to stop the server">>

Idle == [state |-> "idle", req |-> Request("", <<>>, "", FALSE), h |-> NewHandler]

Handling == {"parse", "dispatch", "copyfile", "finish"}

InHandler == {c \in ClientIds : conn[c].state \in Handling}

\* serve_forever calls _handle_request_noblock, which returns only after
\* process_request, finish_request and shutdown_request have returned
ServerIdleThreaded == TRUE

ServerIdle == InHandler = {}

\* print(f"Starting HTTP server on port {PORT}...")
PrintStarting ==
    /\ pc = "print1"
    /\ stdout' = Append(stdout, StartingLine)
    /\ pc' = "print2"
    /\ UNCHANGED <<stderr, exitcode, exitcause, listening, disk, conn, backlog, nconn>>

\* print(f"Videos JSON available at: http://localhost:{PORT}/videos.json")
PrintAvailable ==
    /\ pc = "print2"
    /\ stdout' = Append(stdout, AvailableLine)
    /\ pc' = "print3"
    /\ UNCHANGED <<stderr, exitcode, exitcause, listening, disk, conn, backlog, nconn>>

PrintPressCtrlCOmitted ==
    /\ pc = "print3"
    /\ pc' = "bind"
    /\ UNCHANGED <<stdout, stderr, exitcode, exitcause, listening, disk, conn, backlog, nconn>>

\* print("Press Ctrl+C to stop the server")
PrintPressCtrlC ==
    /\ pc = "print3"
    /\ stdout' = Append(stdout, PressCtrlCLine)
    /\ pc' = "bind"
    /\ UNCHANGED <<stderr, exitcode, exitcause, listening, disk, conn, backlog, nconn>>

\* socketserver.TCPServer(("", PORT), Handler): server_bind, server_activate
BindOk ==
    /\ pc = "bind"
    /\ listening' = TRUE
    /\ pc' = "serve"
    /\ UNCHANGED <<stdout, stderr, exitcode, exitcause, disk, conn, backlog, nconn>>

\* the port is taken: OSError leaves the module, traceback, status 1
BindFails ==
    /\ pc = "bind"
    /\ pc' = "exited"
    /\ exitcode' = 1
    /\ exitcause' = "bind"
    /\ stderr' = Append(stderr, <<"Traceback", "OSError">>)
    /\ UNCHANGED <<stdout, listening, disk, conn, backlog, nconn>>

\* Ctrl+C while serve_forever runs (waiting in select or inside a handler):
\* KeyboardInterrupt is caught nowhere; the with statement closes the listening
\* socket on the way out
Interrupt ==
    /\ pc = "serve"
    /\ pc' = "exited"
    /\ exitcode' \in InterruptStatuses
    /\ exitcause' = "interrupt"
    /\ listening' = FALSE
    /\ stderr' = Append(stderr, <<"Traceback", "KeyboardInterrupt">>)
    /\ UNCHANGED <<stdout, disk, conn, backlog, nconn>>

\* a client opens a connection and sends its request
Connect(c, r) ==
    /\ listening
    /\ conn[c].state \in {"idle", "closed"}
    /\ nconn < MaxConns
    /\ Len(backlog) < request_queue_size
    /\ conn' = [conn EXCEPT ![c] = [state |-> "queued", req |-> r, h |-> NewHandler]]
    /\ backlog' = Append(backlog, c)
    /\ nconn' = nconn + 1
    /\ UNCHANGED <<pc, stdout, stderr, exitcode, exitcause, listening, disk>>

\* get_request (accept) and the construction of the handler
Accept(c) ==
    /\ pc = "serve"
    /\ ServerIdle
    /\ backlog # <<>>
    /\ c = Head(backlog)
    /\ backlog' = Tail(backlog)
    /\ conn' = [conn EXCEPT ![c].state = "parse"]
    /\ UNCHANGED <<pc, stdout, stderr, exitcode, exitcause, listening, disk, nconn>>

\* handle_one_request: readline and parse_request
ParseRequest(c) ==
    /\ pc = "serve"
    /\ conn[c].state = "parse"
    /\ LET r == parse_request(conn[c].h, conn[c].req)
       IN /\ conn' = [conn EXCEPT ![c].h = [r.h EXCEPT !.log = <<>>],
                                  ![c].state = IF r.ok THEN "dispatch" ELSE "finish"]
          /\ stderr' = stderr \o r.h.log
    /\ UNCHANGED <<pc, stdout, exitcode, exitcause, listening, disk, backlog, nconn>>

\* handle_one_request: the do_ method, up to the flushed headers
Dispatch(c) ==
    /\ pc = "serve"
    /\ conn[c].state = "dispatch"
    /\ LET h == dispatch(conn[c].h, disk)
       IN /\ conn' = [conn EXCEPT ![c].h = [h EXCEPT !.log = <<>>],
                                  ![c].state = IF h.f.open THEN "copyfile" ELSE "finish"]
          /\ stderr' = stderr \o h.log
    /\ UNCHANGED <<pc, stdout, exitcode, exitcause, listening, disk, backlog, nconn>>

\* SimpleHTTPRequestHandler.do_GET: copyfile(f, self.wfile)
CopyFile(c) ==
    /\ pc = "serve"
    /\ conn[c].state = "copyfile"
    /\ conn' = [conn EXCEPT ![c].h = copyfile(@), ![c].state = "finish"]
    /\ UNCHANGED <<pc, stdout, stderr, exitcode, exitcause, listening, disk, backlog, nconn>>

\* a server whose loop ends with the first error response
ShutdownRequestStopsOnError(c) ==
    /\ pc = "serve"
    /\ conn[c].state = "finish"
    /\ conn' = [conn EXCEPT ![c].state = "closed"]
    /\ pc' = IF conn[c].h.code >= 400 THEN "exited" ELSE pc
    /\ exitcode' = IF conn[c].h.code >= 400 THEN 1 ELSE exitcode
    /\ exitcause' = IF conn[c].h.code >= 400 THEN "request" ELSE exitcause
    /\ listening' = (conn[c].h.code < 400)
    /\ UNCHANGED <<stdout, stderr, disk, backlog, nconn>>

\* finish, shutdown_request: the connection is closed and the loop goes on
ShutdownRequest(c) ==
    /\ pc = "serve"
    /\ conn[c].state = "finish"
    /\ conn' = [conn EXCEPT ![c].state = "closed"]
    /\ UNCHANGED <<pc, stdout, stderr, exitcode, exitcause, listening, disk, backlog, nconn>>

\* videos.json is created, replaced or removed by the user or a test fixture
EditVideos(e) ==
    /\ pc # "exited"
    /\ e # disk["videos.json"]
    /\ disk' = [disk EXCEPT !["videos.json"] = e]
    /\ UNCHANGED <<pc, stdout, stderr, exitcode, exitcause, listening, conn, backlog, nconn>>

InitProcess ==
    /\ pc = "print1"
    /\ stdout = <<>>
    /\ stderr = <<>>
    /\ exitcode = -1
    /\ exitcause = ""
    /\ listening = FALSE
    /\ conn = [c \in ClientIds |-> Idle]
    /\ backlog = <<>>
    /\ nconn = 0

Init == InitProcess /\ disk \in LifecycleDisks

Next ==
    \/ PrintStarting
    \/ PrintAvailable
    \/ PrintPressCtrlC
    \/ BindOk
    \/ BindFails
    \/ Interrupt
    \/ \E c \in ClientIds, r \in LifecycleRequests : Connect(c, r)
    \/ \E c \in ClientIds : Accept(c)
    \/ \E c \in ClientIds : ParseRequest(c)
    \/ \E c \in ClientIds : Dispatch(c)
    \/ \E c \in ClientIds : CopyFile(c)
    \/ \E c \in ClientIds : ShutdownRequest(c)
    \/ \E e \in {d["videos.json"] : d \in LifecycleDisks} : EditVideos(e)

Spec == Init /\ [][Next]_vars

\* the first connection of a run
FirstConnect(r) == nconn = 0 /\ Connect("c1", r)

\* one request per run, every request line and every working directory
InitHandler == InitProcess /\ disk \in AllDisks

NextHandler ==
    \/ PrintStarting
    \/ PrintAvailable
    \/ PrintPressCtrlC
    \/ BindOk
    \/ \E r \in AllRequests : FirstConnect(r)
    \/ Accept("c1")
    \/ ParseRequest("c1")
    \/ Dispatch("c1")
    \/ CopyFile("c1")
    \/ ShutdownRequest("c1")

SpecHandler == InitHandler /\ [][NextHandler]_vars

(* ------------------------------ claims -------------------------------- *)

Closed == {c \in ClientIds : conn[c].state = "closed"}

\* the connections whose do_ method has run
Dispatched == {c \in ClientIds : conn[c].state \in {"copyfile", "finish", "closed"}
                                  /\ conn[c].h.resolved # <<>>}

FixedHeaders ==
    {Line("Access-Control-Allow-Origin", "*"),
     Line("Access-Control-Allow-Methods", "GET"),
     Line("Cache-Control", "no-store, no-cache, must-revalidate")}

\* each fixed header occurs exactly once in the header block, with its value
HasFixedHeaders(head) ==
    \A fh \in FixedHeaders :
        /\ Cardinality({i \in DOMAIN head : head[i].k = fh.k}) = 1
        /\ \E i \in DOMAIN head : head[i] = fh

StatusLine(code) == Line(protocol_version, CodeStr(code))

SupportedVersion(v) == v \in {"HTTP/1.0", "HTTP/1.1"}

\* C1 (as amended): every response that has a status line and header block
\* carries each of the three fixed headers exactly once with the exact value,
\* whatever the method, path and status; and every answered request whose
\* request line names HTTP/1.0 or HTTP/1.1 gets such a header block.
C1_FixedHeadersOnEveryHeaderBlock ==
    \A c \in ClientIds :
        /\ conn[c].h.head # <<>> => HasFixedHeaders(conn[c].h.head)
        /\ (c \in Closed /\ SupportedVersion(conn[c].req.version)) =>
               /\ conn[c].h.head # <<>>
               /\ conn[c].h.head[1] = StatusLine(conn[c].h.code)

\* C1 (original): every response the server sends carries the three headers
\* (stated here only for the requests whose request line the server accepts).
C1_Original ==
    \A c \in Closed :
        (conn[c].h.command # "" /\ (conn[c].h.head # <<>> \/ conn[c].h.body # <<>>)) =>
            HasFixedHeaders(conn[c].h.head)

C1_Witness ==
    \E c \in Closed :
        /\ conn[c].h.code = 404
        /\ conn[c].req.method = "GET"
        /\ conn[c].h.head # <<>>
        /\ HasFixedHeaders(conn[c].h.head)

\* C2: a GET for "/" and a GET for "/videos.json" that are otherwise the same
\* request and found the same directory get the same status, the same header
\* block and the same body, whether videos.json is there or not.
C2_RootSameAsVideosJson ==
    \A c1, c2 \in Closed :
        (/\ conn[c1].req.method = "GET" /\ conn[c2].req.method = "GET"
         /\ conn[c1].req.path = Root /\ conn[c2].req.path = VideosJsonPath
         /\ conn[c1].req.version = conn[c2].req.version
         /\ conn[c1].req.ims = conn[c2].req.ims
         /\ conn[c1].h.snap = conn[c2].h.snap) =>
            /\ conn[c1].h.code = conn[c2].h.code
            /\ conn[c1].h.head = conn[c2].h.head
            /\ conn[c1].h.body = conn[c2].h.body

C2_Witness ==
    \E c1, c2 \in Closed :
        /\ conn[c1].req = Request("GET", Root, "HTTP/1.1", FALSE)
        /\ conn[c2].req = Request("GET", VideosJsonPath, "HTTP/1.1", FALSE)
        /\ conn[c1].h.snap = conn[c2].h.snap
        /\ conn[c1].h.code = 200
        /\ conn[c1].h.body = <<"{", "}">>
        /\ conn[c2].h.body = <<"{", "}">>

StartsWithTwoSlashes(p) == Len(p) >= 2 /\ p[1] = "/" /\ p[2] = "/"

\* C3 (as amended): for a GET, the path handed to file resolution is
\* "/videos.json" when the request path is "/" or consists of slashes only;
\* the request path with its leading run of slashes reduced to one when it
\* starts with "//" and names something; the request path unchanged otherwise
\* ("/?x=1", "/index.html", "/Videos.json").
C3_RewriteOnlyRoot ==
    \A c \in Dispatched :
        conn[c].req.method = "GET" =>
            LET p == conn[c].req.path
                got == conn[c].h.resolved
            IN /\ p = Root => got = VideosJsonPath
               /\ (p # Root /\ ~StartsWithTwoSlashes(p)) => got = p
               /\ p = <<"/", "/">> => got = VideosJsonPath
               /\ p = <<"/", "/", "videos.json">> => got = VideosJsonPath

\* C3 (original): a GET whose request path is not exactly "/" has its request
\* path handed to file resolution unchanged.
C3_Original ==
    \A c \in Dispatched :
        (conn[c].req.method = "GET" /\ conn[c].req.path # Root) =>
            conn[c].h.resolved = conn[c].req.path

C3_Witness ==
    \E c \in Closed :
        /\ conn[c].req.method = "GET"
        /\ conn[c].req.path = <<"/", "?", "x=1">>
        /\ conn[c].h.resolved = <<"/", "?", "x=1">>
        /\ conn[c].h.code = 200

VideosJsonMissing(c) ==
    /\ conn[c].req.method = "GET"
    /\ conn[c].req.path \in {Root, VideosJsonPath}
    /\ disk["videos.json"].kind = "none"

\* C4 (as amended): with videos.json missing, a GET for "/" or "/videos.json"
\* whose request line names HTTP/1.0 or HTTP/1.1 is answered with status line
\* 404 and the three fixed headers; the same GET sent as an HTTP/0.9 simple
\* request is answered 404 too, by the error page alone, with no header block.
C4_MissingVideosJsonIs404 ==
    \A c \in Closed :
        VideosJsonMissing(c) =>
            /\ SupportedVersion(conn[c].req.version) =>
                   /\ conn[c].h.code = 404
                   /\ conn[c].h.head[1] = StatusLine(404)
                   /\ HasFixedHeaders(conn[c].h.head)
            /\ conn[c].req.version = "" =>
                   /\ conn[c].h.code = 404
                   /\ conn[c].h.head = <<>>
                   /\ conn[c].h.body = ErrorBody(404, "File not found")

\* C4 (original): with videos.json missing, a GET for "/" or "/videos.json"
\* returns 404 and the response carries the three fixed headers (stated here
\* only for the requests whose request line the server accepts).
C4_Original ==
    \A c \in Closed :
        (VideosJsonMissing(c) /\ conn[c].h.command # "") =>
            /\ conn[c].h.code = 404
            /\ HasFixedHeaders(conn[c].h.head)

C4_Witness ==
    \E c \in Closed :
        /\ VideosJsonMissing(c)
        /\ conn[c].req.path = Root
        /\ conn[c].req.version = "HTTP/1.1"
        /\ conn[c].h.code = 404
        /\ HasFixedHeaders(conn[c].h.head)

\* C5: a POST to "/videos.json" is never answered 200, whatever is on disk:
\* the status is 501 when the request line names HTTP/1.0 or HTTP/1.1, and
\* 400 or 505 when the request line is rejected before the method is looked
\* at; the file is never resolved and never sent.
C5_PostIsNeverServed ==
    \A c \in Closed :
        (conn[c].req.method = "POST" /\ conn[c].req.path = VideosJsonPath) =>
            /\ conn[c].h.code # 200
            /\ conn[c].h.code \in {400, 501, 505}
            /\ conn[c].h.resolved = <<>>
            /\ conn[c].h.body = <<>> \/ conn[c].h.body[1] = "<html>"
            /\ SupportedVersion(conn[c].req.version) =>
                   /\ conn[c].h.code = 501
                   /\ conn[c].h.head[1] = StatusLine(501)

C5_Witness ==
    \E c \in Closed :
        /\ conn[c].req = Request("POST", VideosJsonPath, "HTTP/1.1", FALSE)
        /\ disk["videos.json"] = FileOf(<<"{", "}">>)
        /\ conn[c].h.code = 501

\* C6: connections are handled strictly one at a time: while a connection is
\* anywhere between its accept and its close, every other connection is still
\* waiting in the listen queue or already closed, untouched by the handler or
\* completely answered.
C6_OneConnectionAtATime ==
    /\ Cardinality(InHandler) <= 1
    /\ \A c \in InHandler :
           \A o \in ClientIds \ {c} :
               \/ conn[o].state = "idle"
               \/ conn[o].state = "queued" /\ conn[o].h = NewHandler
               \/ /\ conn[o].state = "closed"
                  /\ conn[o].h.hbuf = <<>>
                  /\ ~conn[o].h.f.open

C6_Witness ==
    \E c, o \in ClientIds :
        /\ conn[c].state = "copyfile"
        /\ conn[c].h.head # <<>>
        /\ conn[c].h.body = <<>>
        /\ conn[o].state = "queued"
        /\ backlog = <<o>>

Answered200(c) ==
    /\ conn[c].h.code = 200
    /\ conn[c].h.head[1] = StatusLine(200)
    /\ conn[c].h.body = conn[c].h.snap["videos.json"].data

\* C7: no request ends the server: the process exits only on an interrupt or
\* a failed bind, it is listening whenever it is in the serve loop, a waiting
\* connection can be accepted whenever no handler runs, and after any earlier
\* requests (404s included) a completed plain GET for "/" or "/videos.json"
\* that found the file is answered 200 with the file's content.
C7_ServerSurvivesRequests ==
    /\ pc = "exited" => exitcause \in {"interrupt", "bind"}
    /\ pc = "serve" => listening
    /\ (pc = "serve" /\ backlog # <<>> /\ InHandler = {}) => ENABLED Accept(Head(backlog))
    /\ \A c \in Closed :
           (/\ conn[c].req.method = "GET"
            /\ conn[c].req.path \in {Root, VideosJsonPath}
            /\ conn[c].req.version = "HTTP/1.1"
            /\ ~conn[c].req.ims
            /\ conn[c].h.snap["videos.json"].kind = "file") => Answered200(c)

\* a 404 was logged, and a later request was answered 200
C7_Witness ==
    /\ pc = "serve"
    /\ listening
    /\ \E i, j \in DOMAIN stderr :
           /\ i < j
           /\ stderr[i] = <<"request", "404">>
           /\ stderr[j] = <<"request", "200">>
    /\ \E c \in Closed : conn[c].req.method = "GET" /\ Answered200(c)

StartupLines == <<StartingLine, AvailableLine, PressCtrlCLine>>

\* C8 (as amended): startup writes three lines to standard output, in this
\* order: the port, the URL of the JSON endpoint, and "Press Ctrl+C to stop
\* the server"; from the bind on standard output holds exactly these three
\* lines, whatever requests are served, and the process leaves the serve loop
\* only when it is interrupted.
C8_ThreeStartupLines ==
    /\ \E n \in 0..3 : stdout = SubSeq(StartupLines, 1, n)
    /\ pc \in {"bind", "serve"} => stdout = StartupLines
    /\ (pc = "exited" /\ exitcause = "bind") => stdout = StartupLines
    /\ (pc = "exited" /\ exitcause # "bind") => (exitcause = "interrupt" /\ stdout = StartupLines)

\* C8 (original): the lines written to standard output are exactly two, the
\* port and the URL.
C8_Original ==
    pc = "serve" => stdout = <<StartingLine, AvailableLine>>

C8_Witness ==
    /\ pc = "serve"
    /\ Closed # {}
    /\ Len(stderr) > 0
    /\ stdout = StartupLines

\* C9: an operator interrupt of the running server ends the process with exit
\* code 0.
C9_InterruptExitsWithZero ==
    (pc = "exited" /\ exitcause = "interrupt") => exitcode = 0

\* C10: only do_GET rewrites: a request with another method and path "/" keeps
\* the path "/"; a HEAD for it is resolved against the directory itself (with
\* no index.html there: 200 and the headers of a directory listing, whether
\* or not videos.json exists), and a POST is resolved against nothing.
C10_OnlyGetRewrites ==
    \A c \in ClientIds :
        (/\ conn[c].state \in {"finish", "closed"}
         /\ conn[c].req.method # "GET"
         /\ conn[c].req.path = Root) =>
            /\ conn[c].h.path = Root
            /\ conn[c].req.method = "HEAD" =>
                   /\ conn[c].h.resolved = Root
                   /\ conn[c].h.body = <<>>
                   /\ conn[c].h.snap["index.html"].kind = "none" =>
                          /\ conn[c].h.code = 200
                          /\ Line("Content-type", "text/html; charset=utf-8")
                                 \in {conn[c].h.head[i] : i \in DOMAIN conn[c].h.head}
            /\ conn[c].req.method = "POST" => conn[c].h.resolved = <<>>

\* HEAD "/" and HEAD "/videos.json" found the same directory and were answered
\* with different statuses
C10_Witness ==
    \E c1, c2 \in Closed :
        /\ conn[c1].req = Request("HEAD", Root, "HTTP/1.1", FALSE)
        /\ conn[c2].req = Request("HEAD", VideosJsonPath, "HTTP/1.1", FALSE)
        /\ conn[c1].h.snap = conn[c2].h.snap
        /\ conn[c1].h.resolved = Root
        /\ conn[c1].h.code = 200
        /\ conn[c2].h.code = 404

=============================================================================
